---- MODULE Spec2Model ----
(***************************************************************************)
(* Shopping-list application (robmagary/shopping-list-react).              *)
(*                                                                         *)
(* Three iterations of the application keep their state in a reducer and   *)
(* write it through to window.localStorage under 'react-shopping-list':    *)
(*   "quantity"    src/unnamed/part_000 lines 1-287                        *)
(*   "notes"       src/src/App.tsx                                         *)
(*   "categories"  src/unnamed/part_000 lines 289-876                      *)
(* Definitions without a suffix model src/src/App.tsx; the suffixes _qty   *)
(* and _cat mark the quantity and the categories version.                  *)
(*                                                                         *)
(* Array positions: the code counts from 0, sequences here count from 1,   *)
(* so itemIndex i of the code is position i + 1 of the model.              *)
(***************************************************************************)
EXTENDS Integers, Sequences, FiniteSets, TLC

VARIABLES
    version,   \* which iteration of the application runs in this browser
    phase,     \* "unloaded" | "mounted" (rendered, mount effect pending) | "running" | "error"
    state,     \* the reducer state (React.useReducer), NoState while unloaded or crashed
    storage,   \* the localStorage entry 'react-shopping-list'
    queryCache, \* the QueryClient's cache: the status of the query of each key
    queryData, \* the QueryClient's cache: the response held for each key
    other      \* a second instance of the page on the same storage, if any

vars == <<version, phase, state, storage, queryCache, queryData, other>>

(***************************************************************************)
(* Bounds of the model.                                                    *)
(***************************************************************************)
MaxItems == 3        \* SetItem is not offered once the list is this long
MaxQuantity == 2     \* the +1 of a re-selection is not offered beyond this
MaxCategories == 2   \* AddCategory is not offered once this many exist
ReducerMaxLen == 2   \* the longest list the reducer is applied to on its own

Versions == {"quantity", "notes", "categories"}
SearchResultLabels == {"egg", "ham"}     \* strings the food API answers with
SearchInputs == {"", "e", "eg"}          \* typed search text: length 0, 1, 2
NoteTexts == {"", "2%"}                  \* typed note text
CategoryInputs == {"ab", "tea"}          \* typed category text: length 2, 3

(***************************************************************************)
(* JSON values: what JSON.parse returns and JSON.stringify takes, tagged   *)
(* with the typeof that zod inspects.                                      *)
(***************************************************************************)
JNull == [type |-> "null"]
JBool(b) == [type |-> "boolean", bool |-> b]
JNum(n) == [type |-> "number", num |-> n]
JStr(s) == [type |-> "string", str |-> s]
JArr(a) == [type |-> "array", arr |-> a]
JObj(o) == [type |-> "object", obj |-> o]

(***************************************************************************)
(* The localStorage entry: getItem returns null, or the stored string.     *)
(* A string is the empty string, a text JSON.parse rejects, or the text    *)
(* of a JSON value.                                                        *)
(***************************************************************************)
NoItem == [item |-> "null"]
EmptyString == [item |-> "empty"]
Malformed == [item |-> "malformed"]
TextOf(j) == [item |-> "json", json |-> j]

\* `getItem(...) || fallback`: null and '' are falsy
Falsy(item) == item = NoItem \/ item = EmptyString

\* JSON.parse throws a SyntaxError on '' and on text that is not JSON
JSONparseThrows(text) == text.item # "json"
JSONparse(text) == text.json

JsonNote(n) == JObj([isOpen |-> JBool(n.isOpen), text |-> JStr(n.text)])

JsonStrings(a) == JArr([i \in 1..Len(a) |-> JStr(a[i])])

JsonItem(it) ==
    JObj([k \in DOMAIN it |->
            CASE k = "label" -> JStr(it[k])
              [] k = "isSelected" -> JBool(it[k])
              [] k = "quantity" -> JNum(it[k])
              [] k = "notes" -> JsonNote(it[k])
              [] k = "categories" -> JsonStrings(it[k])])

\* JSON.stringify(state): every own property of the state object, by its type
JSONstringify(s) ==
    TextOf(JObj([k \in DOMAIN s |->
            CASE k = "items" -> JArr([i \in 1..Len(s[k]) |-> JsonItem(s[k][i])])
              [] k = "resultsAreVisible" -> JBool(s[k])
              [] k = "categories" -> JsonStrings(s[k])
              [] OTHER -> JStr(s[k])]))

(***************************************************************************)
(* zod schemas.  XSchema(j) is safeParse(j).success; XData(j) is the       *)
(* parsed data, which keeps the schema's keys and drops every other key.   *)
(***************************************************************************)
Has(j, k) == j.type = "object" /\ k \in DOMAIN j.obj
IsString(j) == j.type = "string"
IsBoolean(j) == j.type = "boolean"
\* z.number() without its bounds
IsQuantity_unbounded(j) == j.type = "number"

\* z.number().min(1).positive()
IsQuantity(j) == j.type = "number" /\ j.num >= 1 /\ j.num > 0

noteSchema(j) ==
    /\ Has(j, "isOpen") /\ IsBoolean(j.obj.isOpen)
    /\ Has(j, "text") /\ IsString(j.obj.text)

noteData(j) == [isOpen |-> j.obj.isOpen.bool, text |-> j.obj.text.str]

listItemSchema(j) ==
    /\ Has(j, "label") /\ IsString(j.obj.label) /\ Len(j.obj.label.str) >= 1
    /\ Has(j, "isSelected") /\ IsBoolean(j.obj.isSelected)
    /\ Has(j, "notes") /\ noteSchema(j.obj.notes)
    /\ Has(j, "quantity") /\ IsQuantity(j.obj.quantity)

\* rehydration that loses the check mark
listItemData_unselected(j) ==
    [label |-> j.obj.label.str,
     isSelected |-> FALSE,
     notes |-> noteData(j.obj.notes),
     quantity |-> j.obj.quantity.num]

listItemData(j) ==
    [label |-> j.obj.label.str,
     isSelected |-> j.obj.isSelected.bool,
     notes |-> noteData(j.obj.notes),
     quantity |-> j.obj.quantity.num]

shoppingListStateSchema(j) ==
    /\ Has(j, "items") /\ j.obj.items.type = "array"
    /\ \A i \in 1..Len(j.obj.items.arr) : listItemSchema(j.obj.items.arr[i])
    /\ Has(j, "resultsAreVisible") /\ IsBoolean(j.obj.resultsAreVisible)
    /\ Has(j, "searchInput") /\ IsString(j.obj.searchInput)

shoppingListStateData(j) ==
    [items |-> [i \in 1..Len(j.obj.items.arr) |-> listItemData(j.obj.items.arr[i])],
     resultsAreVisible |-> j.obj.resultsAreVisible.bool,
     searchInput |-> j.obj.searchInput.str]

emptyState == [items |-> <<>>, searchInput |-> "", resultsAreVisible |-> FALSE]

NoState == [mounted |-> FALSE]

\* the page is open once only
NoInstance == [phase |-> "absent"]

(***************************************************************************)
(* The quantity version: items carry no notes.                             *)
(***************************************************************************)
listItemSchema_qty(j) ==
    /\ Has(j, "label") /\ IsString(j.obj.label) /\ Len(j.obj.label.str) >= 1
    /\ Has(j, "isSelected") /\ IsBoolean(j.obj.isSelected)
    /\ Has(j, "quantity") /\ IsQuantity(j.obj.quantity)

listItemData_qty(j) ==
    [label |-> j.obj.label.str,
     isSelected |-> j.obj.isSelected.bool,
     quantity |-> j.obj.quantity.num]

shoppingListStateSchema_qty(j) ==
    /\ Has(j, "items") /\ j.obj.items.type = "array"
    /\ \A i \in 1..Len(j.obj.items.arr) : listItemSchema_qty(j.obj.items.arr[i])
    /\ Has(j, "resultsAreVisible") /\ IsBoolean(j.obj.resultsAreVisible)
    /\ Has(j, "searchInput") /\ IsString(j.obj.searchInput)

shoppingListStateData_qty(j) ==
    [items |-> [i \in 1..Len(j.obj.items.arr) |-> listItemData_qty(j.obj.items.arr[i])],
     resultsAreVisible |-> j.obj.resultsAreVisible.bool,
     searchInput |-> j.obj.searchInput.str]

emptyState_qty == [items |-> <<>>, searchInput |-> "", resultsAreVisible |-> FALSE]

(***************************************************************************)
(* The categories version: items carry categories, the state carries the   *)
(* category list, the category input and the mode.                         *)
(***************************************************************************)
\* z.string().min(3)
categorySchema(j) == IsString(j) /\ Len(j.str) >= 3

categoriesSchema(j) ==
    /\ j.type = "array"
    /\ \A i \in 1..Len(j.arr) : categorySchema(j.arr[i])

categoriesData(j) == [i \in 1..Len(j.arr) |-> j.arr[i].str]

modeEnum(j) == IsString(j) /\ j.str \in {"Build", "Shop", "Manage"}

listItemSchema_cat(j) ==
    /\ Has(j, "categories") /\ categoriesSchema(j.obj.categories)
    /\ Has(j, "label") /\ IsString(j.obj.label) /\ Len(j.obj.label.str) >= 1
    /\ Has(j, "isSelected") /\ IsBoolean(j.obj.isSelected)
    /\ Has(j, "notes") /\ noteSchema(j.obj.notes)
    /\ Has(j, "quantity") /\ IsQuantity(j.obj.quantity)

listItemData_cat(j) ==
    [categories |-> categoriesData(j.obj.categories),
     label |-> j.obj.label.str,
     isSelected |-> j.obj.isSelected.bool,
     notes |-> noteData(j.obj.notes),
     quantity |-> j.obj.quantity.num]

shoppingListStateSchema_cat(j) ==
    /\ Has(j, "categories") /\ categoriesSchema(j.obj.categories)
    /\ Has(j, "categoryInput") /\ IsString(j.obj.categoryInput)
    /\ Has(j, "items") /\ j.obj.items.type = "array"
    /\ \A i \in 1..Len(j.obj.items.arr) : listItemSchema_cat(j.obj.items.arr[i])
    /\ Has(j, "mode") /\ modeEnum(j.obj.mode)
    /\ Has(j, "resultsAreVisible") /\ IsBoolean(j.obj.resultsAreVisible)
    /\ Has(j, "searchInput") /\ IsString(j.obj.searchInput)

shoppingListStateData_cat(j) ==
    [categories |-> categoriesData(j.obj.categories),
     categoryInput |-> j.obj.categoryInput.str,
     items |-> [i \in 1..Len(j.obj.items.arr) |-> listItemData_cat(j.obj.items.arr[i])],
     mode |-> j.obj.mode.str,
     resultsAreVisible |-> j.obj.resultsAreVisible.bool,
     searchInput |-> j.obj.searchInput.str]

emptyState_cat ==
    [categories |-> <<>>, categoryInput |-> "", items |-> <<>>, mode |-> "Build",
     searchInput |-> "", resultsAreVisible |-> FALSE]

(***************************************************************************)
(* The reducers.  An action is a record with its type and its payload.     *)
(***************************************************************************)
\* the change applied with the wrong sign
changeQuantity_subtracted(items, itemLabel, change) ==
    [i \in 1..Len(items) |->
        IF items[i].label = itemLabel
        THEN [items[i] EXCEPT !.quantity = @ - change]
        ELSE items[i]]

\* the change applied to the first item with the label only
changeQuantity_firstMatch(items, itemLabel, change) ==
    [i \in 1..Len(items) |->
        IF /\ items[i].label = itemLabel
           /\ \A j \in 1..(i - 1) : items[j].label # itemLabel
        THEN [items[i] EXCEPT !.quantity = @ + change]
        ELSE items[i]]

\* draft.map(item => { if (item.label === itemLabel) item.quantity += change })
changeQuantity(items, itemLabel, change) ==
    [i \in 1..Len(items) |->
        IF items[i].label = itemLabel
        THEN [items[i] EXCEPT !.quantity = @ + change]
        ELSE items[i]]

\* draft.splice(itemIndex) without its count: removes to the end of the list
splice_toEnd(items, itemIndex) ==
    IF itemIndex \in 1..Len(items)
    THEN [i \in 1..(itemIndex - 1) |-> items[i]]
    ELSE items

\* draft.splice(itemIndex, 1): an index past the end removes nothing
splice(items, itemIndex) ==
    IF itemIndex \in 1..Len(items)
    THEN [i \in 1..(Len(items) - 1) |-> IF i < itemIndex THEN items[i] ELSE items[i + 1]]
    ELSE items

\* the cases of the reducer of src/src/App.tsx
reduceChangeItemQuantity(s, action) ==
    [s EXCEPT !.items = changeQuantity(s.items, action.itemLabel, action.change)]

reduceDeletedItem(s, action) ==
    [s EXCEPT !.items = splice(s.items, action.itemIndex)]

\* the first iteration's SetItem: [...state.items, newItem]
reduceSetItem_appended(s, action) ==
    [s EXCEPT !.items = s.items \o <<[label |-> action.itemLabel,
                                      isSelected |-> FALSE,
                                      notes |-> [isOpen |-> FALSE, text |-> ""],
                                      quantity |-> 1]>>,
              !.resultsAreVisible = FALSE]

reduceSetItem(s, action) ==
    [s EXCEPT !.items = <<[label |-> action.itemLabel,
                           isSelected |-> FALSE,
                           notes |-> [isOpen |-> FALSE, text |-> ""],
                           quantity |-> 1]>> \o s.items,
              !.resultsAreVisible = FALSE]

\* typing that starts a new list
reduceSetSearchInput_emptiesList(s, action) ==
    [s EXCEPT !.resultsAreVisible = TRUE, !.searchInput = action.searchInput,
              !.items = <<>>]

reduceSetSearchInput(s, action) ==
    [s EXCEPT !.resultsAreVisible = TRUE, !.searchInput = action.searchInput]

\* a check box that can only be ticked
reduceToggledItem_ticks(s, action) ==
    [s EXCEPT !.items[action.itemIndex].isSelected = TRUE]

reduceToggledItem(s, action) ==
    [s EXCEPT !.items[action.itemIndex].isSelected = ~@]

\* opening or closing the editor discards the note
reduceToggledNote_clearsText(s, action) ==
    [s EXCEPT !.items[action.itemIndex].notes = [isOpen |-> ~@.isOpen, text |-> ""]]

reduceToggledNote(s, action) ==
    [s EXCEPT !.items[action.itemIndex].notes.isOpen = ~@]

reduceUpdateNoteText(s, action) ==
    [s EXCEPT !.items[action.itemIndex].notes.text = action.text]

shoppingListReducer(s, action) ==
    CASE action.type = "ChangeItemQuantity" -> reduceChangeItemQuantity(s, action)
      [] action.type = "DeletedItem" -> reduceDeletedItem(s, action)
      [] action.type = "SetItem" -> reduceSetItem(s, action)
      [] action.type = "SetSearchInput" -> reduceSetSearchInput(s, action)
      [] action.type = "ToggledItem" -> reduceToggledItem(s, action)
      [] action.type = "ToggledNote" -> reduceToggledNote(s, action)
      [] action.type = "UpdateNoteText" -> reduceUpdateNoteText(s, action)

shoppingListReducer_qty(s, action) ==
    CASE action.type = "ChangeItemQuantity" ->
            [s EXCEPT !.items = changeQuantity(s.items, action.itemLabel, action.change)]
      [] action.type = "DeletedItem" ->
            [s EXCEPT !.items = splice(s.items, action.itemIndex)]
      [] action.type = "SetItem" ->
            [s EXCEPT !.items = <<[label |-> action.itemLabel,
                                   isSelected |-> FALSE,
                                   quantity |-> 1]>> \o s.items,
                      !.resultsAreVisible = FALSE]
      [] action.type = "SetSearchInput" ->
            [s EXCEPT !.resultsAreVisible = TRUE, !.searchInput = action.searchInput]
      [] action.type = "ToggledItem" ->
            [s EXCEPT !.items[action.itemIndex].isSelected = ~@]

\* AddCategory that puts the new category last
reduceAddCategory_appended(s, action) ==
    [s EXCEPT !.categories = s.categories \o <<action.newCategory>>,
              !.categoryInput = ""]

\* the case AddCategory of the categories version
reduceAddCategory(s, action) ==
    [s EXCEPT !.categories = <<action.newCategory>> \o s.categories,
              !.categoryInput = ""]

\* SwitchMode that also discards the typed category
reduceSwitchMode_clearsInput(s, action) ==
    [s EXCEPT !.mode = action.mode, !.categoryInput = ""]

\* the case SwitchMode of the categories version
reduceSwitchMode(s, action) ==
    [s EXCEPT !.mode = action.mode]

shoppingListReducer_cat(s, action) ==
    CASE action.type = "AddCategory" -> reduceAddCategory(s, action)
      [] action.type = "ChangeItemQuantity" ->
            [s EXCEPT !.items = changeQuantity(s.items, action.itemLabel, action.change)]
      [] action.type = "DeletedItem" ->
            [s EXCEPT !.items = splice(s.items, action.itemIndex)]
      [] action.type = "SetItem" ->
            [s EXCEPT !.items = <<[categories |-> <<>>,
                                   label |-> action.itemLabel,
                                   isSelected |-> FALSE,
                                   notes |-> [isOpen |-> FALSE, text |-> ""],
                                   quantity |-> 1]>> \o s.items,
                      !.resultsAreVisible = FALSE]
      [] action.type = "SetSearchInput" ->
            [s EXCEPT !.resultsAreVisible = TRUE, !.searchInput = action.searchInput]
      [] action.type = "SwitchMode" -> reduceSwitchMode(s, action)
      [] action.type = "ToggledItem" ->
            [s EXCEPT !.items[action.itemIndex].isSelected = ~@]
      [] action.type = "ToggledNote" ->
            [s EXCEPT !.items[action.itemIndex].notes.isOpen = ~@]
      [] action.type = "UpdateCategoryText" ->
            [s EXCEPT !.resultsAreVisible = TRUE, !.categoryInput = action.text]
      [] action.type = "UpdateNoteText" ->
            [s EXCEPT !.items[action.itemIndex].notes.text = action.text]

(***************************************************************************)
(* Persistence.  React.useEffect(() => localStorage.setItem(KEY,           *)
(* JSON.stringify(state)), [state]) runs after every commit whose state    *)
(* object differs from the previous one; every reducer case returns a new  *)
(* object.  The effect of the first render runs after the paint; the       *)
(* effect of a re-render caused by a click or change event runs within the *)
(* same task as the handler, after any effect that is still pending.       *)
(***************************************************************************)
\* an effect that rewrites only the items of the stored object
persistEffect_itemsOnly(s) ==
    storage' = IF storage.item = "json" /\ Has(storage.json, "items")
               THEN TextOf(JObj([storage.json.obj EXCEPT
                                   !.items = JSONstringify(s).json.obj.items]))
               ELSE JSONstringify(s)

\* the effect with a stale closure: it writes the state of the previous render
persistEffect_stale(s) == storage' = IF phase = "mounted" THEN storage ELSE JSONstringify(state)

persistEffect(s) == storage' = JSONstringify(s)

(***************************************************************************)
(* The food query.  useQuery({queryKey: [itemQuery], queryFn, enabled:     *)
(* itemQuery.length > 1}) observes the query of the key itemQuery.  When   *)
(* the observer is set up after a render and the query is enabled and has  *)
(* neither data nor a request in flight, queryFn sends the GET request.    *)
(* A refetch of a key that was already requested is not modelled.          *)
(***************************************************************************)
enabled(itemQuery) == Len(itemQuery) > 1

\* the query without its `enabled` option
useFoodQuery_alwaysEnabled(cache, itemQuery) ==
    IF cache[itemQuery] = "none"
    THEN [cache EXCEPT ![itemQuery] = "fetching"]
    ELSE cache

\* the cache after the observer of itemQuery has been set up
useFoodQuery(cache, itemQuery) ==
    IF enabled(itemQuery) /\ cache[itemQuery] = "none"
    THEN [cache EXCEPT ![itemQuery] = "fetching"]
    ELSE cache

\* the categories version renders SearchResults in the Build panel only
SearchResultsMounted(s) == version = "categories" => s.mode = "Build"

\* the effects of the query observer after a render of the state s
renderQueries(s) ==
    queryCache' = IF SearchResultsMounted(s)
                  THEN useFoodQuery(queryCache, s.searchInput)
                  ELSE queryCache

\* the request of a key is answered, or fails for good after the retries
\* nothing has been received for a key
NoData == [foods |-> {}]

\* what the API answers to GET /fake/food/${itemQuery}
response(itemQuery) == [foods |-> SearchResultLabels, query |-> itemQuery]

\* a fetch outside the query cache: the answer is kept as the one result of
\* the component, whatever the search input is when it arrives
queryFn_oneResult ==
    /\ \E itemQuery \in DOMAIN queryCache :
          /\ queryCache[itemQuery] = "fetching"
          /\ \/ /\ queryCache' = [queryCache EXCEPT ![itemQuery] = "none",
                                                     ![state.searchInput] = "success"]
                /\ queryData' = [queryData EXCEPT ![state.searchInput] = response(itemQuery)]
             \/ /\ queryCache' = [queryCache EXCEPT ![itemQuery] = "error"]
                /\ UNCHANGED queryData
    /\ UNCHANGED <<version, phase, state, storage, other>>

\* the request of a key is answered, or fails for good after the retries; the
\* answer becomes the data of the query of the key it was requested for
queryFn ==
    /\ \E itemQuery \in DOMAIN queryCache :
          /\ queryCache[itemQuery] = "fetching"
          /\ \/ /\ queryCache' = [queryCache EXCEPT ![itemQuery] = "success"]
                /\ queryData' = [queryData EXCEPT ![itemQuery] = response(itemQuery)]
             \/ /\ queryCache' = [queryCache EXCEPT ![itemQuery] = "error"]
                /\ UNCHANGED queryData
    /\ UNCHANGED <<version, phase, state, storage, other>>

MountEffect ==
    /\ phase = "mounted"
    /\ persistEffect(state)
    /\ renderQueries(state)
    /\ phase' = "running"
    /\ UNCHANGED <<version, state, queryData, other>>

\* draft[action.itemIndex].isSelected, .notes.isOpen and .notes.text read a
\* property of undefined when the list has no item at itemIndex: a TypeError
reducerThrows(s, action) ==
    /\ action.type \in {"ToggledItem", "ToggledNote", "UpdateNoteText"}
    /\ action.itemIndex \notin 1..Len(s.items)

\* dispatch of React.useReducer, the re-render and the effect of the new state;
\* an error thrown by the reducer while rendering leaves nothing mounted
dispatch(action) ==
    IF reducerThrows(state, action)
    THEN /\ phase' = "error"
         /\ state' = NoState
         /\ UNCHANGED <<version, storage, queryCache, queryData, other>>
    ELSE /\ state' = CASE version = "notes" -> shoppingListReducer(state, action)
                       [] version = "quantity" -> shoppingListReducer_qty(state, action)
                       [] version = "categories" -> shoppingListReducer_cat(state, action)
         /\ persistEffect(state')
         /\ renderQueries(state')
         /\ phase' = "running"
         /\ UNCHANGED <<version, queryData, other>>

(***************************************************************************)
(* The first render of App: the initial state is read from localStorage.   *)
(* An error thrown while rendering leaves nothing mounted.                 *)
(***************************************************************************)
\* the text handed to JSON.parse: getItem(KEY) || JSON.stringify(emptyState)
savedStateText(item) == IF Falsy(item) THEN JSONstringify(emptyState) ELSE item

intialState(savedState) ==
    IF shoppingListStateSchema(savedState)
    THEN shoppingListStateData(savedState)
    ELSE emptyState

AppLoad ==
    /\ version = "notes"
    /\ phase = "unloaded"
    /\ IF JSONparseThrows(savedStateText(storage))
       THEN phase' = "error" /\ state' = NoState
       ELSE /\ state' = intialState(JSONparse(savedStateText(storage)))
            /\ phase' = "mounted"
    /\ UNCHANGED <<version, storage, queryCache, queryData, other>>

\* getItem(KEY) || ''
savedStateText_qty(item) == IF Falsy(item) THEN EmptyString ELSE item

intialState_qty(savedState) ==
    IF shoppingListStateSchema_qty(savedState)
    THEN shoppingListStateData_qty(savedState)
    ELSE emptyState_qty

AppLoad_qty ==
    /\ version = "quantity"
    /\ phase = "unloaded"
    /\ IF JSONparseThrows(savedStateText_qty(storage))
       THEN phase' = "error" /\ state' = NoState
       ELSE /\ state' = intialState_qty(JSONparse(savedStateText_qty(storage)))
            /\ phase' = "mounted"
    /\ UNCHANGED <<version, storage, queryCache, queryData, other>>

\* the fallback of the quantity version: getItem(KEY) || ''
savedStateText_noDefault(item) == IF Falsy(item) THEN EmptyString ELSE item

savedStateText_cat(item) == IF Falsy(item) THEN JSONstringify(emptyState_cat) ELSE item

intialState_cat(savedState) ==
    IF shoppingListStateSchema_cat(savedState)
    THEN shoppingListStateData_cat(savedState)
    ELSE emptyState_cat

AppLoad_cat ==
    /\ version = "categories"
    /\ phase = "unloaded"
    /\ IF JSONparseThrows(savedStateText_cat(storage))
       THEN phase' = "error" /\ state' = NoState
       ELSE /\ state' = intialState_cat(JSONparse(savedStateText_cat(storage)))
            /\ phase' = "mounted"
    /\ UNCHANGED <<version, storage, queryCache, queryData, other>>

(***************************************************************************)
(* The handlers of App.  The three versions define them with the same      *)
(* code; handleAddCategory, handleSwitchMode and handleUpdateCategoryText  *)
(* exist in the categories version only.                                   *)
(***************************************************************************)
handleDeleteItem(itemIndex) ==
    dispatch([type |-> "DeletedItem", itemIndex |-> itemIndex])

\* the handler without its look-up of the label
handleSetListItem_alwaysAdds(itemLabel) ==
    dispatch([type |-> "SetItem", itemLabel |-> itemLabel])

handleSetListItem(itemLabel) ==
    LET itemExistsInList == \E i \in 1..Len(state.items) : state.items[i].label = itemLabel
    IN  IF itemExistsInList
        THEN dispatch([type |-> "ChangeItemQuantity", change |-> 1, itemLabel |-> itemLabel])
        ELSE dispatch([type |-> "SetItem", itemLabel |-> itemLabel])

handleSetSearchInput(searchInput) ==
    dispatch([type |-> "SetSearchInput", searchInput |-> searchInput])

handleToggleItem(itemIndex) ==
    dispatch([type |-> "ToggledItem", itemIndex |-> itemIndex])

handleToggleNote(itemIndex) ==
    dispatch([type |-> "ToggledNote", itemIndex |-> itemIndex])

handleUpdateNoteText(itemIndex, noteText) ==
    dispatch([type |-> "UpdateNoteText", itemIndex |-> itemIndex, text |-> noteText])

handleAddCategory(newCategory) ==
    dispatch([type |-> "AddCategory", newCategory |-> newCategory])

handleSwitchMode(mode) ==
    dispatch([type |-> "SwitchMode", mode |-> mode])

handleUpdateCategoryText(searchInput) ==
    dispatch([type |-> "UpdateCategoryText", text |-> searchInput])

(***************************************************************************)
(* The components: which handler calls the rendered page offers.           *)
(***************************************************************************)
\* <input onChange={event => setSearchInput(event.target.value)}>
SearchInput ==
    \E searchInput \in SearchInputs : handleSetSearchInput(searchInput)

\* The model's bounds on the list length and on the quantities.
WithinBounds(itemLabel) ==
    IF \E i \in 1..Len(state.items) : state.items[i].label = itemLabel
    THEN \A i \in 1..Len(state.items) :
            state.items[i].label = itemLabel => state.items[i].quantity < MaxQuantity
    ELSE Len(state.items) < MaxItems

\* What SearchResults renders inside its <div> for the query of itemQuery:
\* the error, 'Loading...' or nothing while the status is 'pending', else the
\* list.  Before the observer is set up the result is the optimistic one,
\* which is fetching when the query is about to be fetched.
SearchResultsContent(cache, itemQuery) ==
    LET status == cache[itemQuery]
        isFetching == status = "fetching" \/ (status = "none" /\ enabled(itemQuery))
    IN  CASE status = "error" -> "Error"
          [] status \in {"none", "fetching"} -> IF isFetching THEN "Loading..." ELSE ""
          [] OTHER -> "list"

\* The result buttons exist when the query has data, and can be clicked
\* unless the <div> has the class 'hidden'.
SearchResults ==
    /\ state.resultsAreVisible
    /\ SearchResultsContent(queryCache, state.searchInput) = "list"
    /\ \E searchResult \in queryData[state.searchInput].foods :
          /\ WithinBounds(searchResult)
          /\ handleSetListItem(searchResult)

\* a list that hands the handlers the position counted from 1
ShoppingList_offByOne ==
    \E itemIndex \in 1..Len(state.items) :
       LET listItem == state.items[itemIndex]
       IN  \/ handleToggleItem(itemIndex + 1)
           \/ handleToggleNote(itemIndex + 1)
           \/ /\ ~listItem.notes.isOpen
              /\ handleDeleteItem(itemIndex + 1)
           \/ /\ listItem.notes.isOpen
              /\ \E noteText \in NoteTexts : handleUpdateNoteText(itemIndex + 1, noteText)

\* the list of the quantity version's layout: the delete button and the
\* textarea are always there
ShoppingList_withoutGuards ==
    \E itemIndex \in 1..Len(state.items) :
       \/ handleToggleItem(itemIndex)
       \/ handleToggleNote(itemIndex)
       \/ handleDeleteItem(itemIndex)
       \/ \E noteText \in NoteTexts : handleUpdateNoteText(itemIndex, noteText)

\* The note editor replaces the note and delete buttons while the note is open.
ShoppingList ==
    \E itemIndex \in 1..Len(state.items) :
       LET listItem == state.items[itemIndex]
       IN  \/ handleToggleItem(itemIndex)
           \/ handleToggleNote(itemIndex)
           \/ /\ ~listItem.notes.isOpen
              /\ handleDeleteItem(itemIndex)
           \/ /\ listItem.notes.isOpen
              /\ \E noteText \in NoteTexts : handleUpdateNoteText(itemIndex, noteText)

ShoppingList_qty ==
    \E itemIndex \in 1..Len(state.items) :
       \/ handleToggleItem(itemIndex)
       \/ handleDeleteItem(itemIndex)

\* The handlers receive the position the item has in the list being rendered.
ShoppingListItem(itemIndex, listItem) ==
    \/ handleToggleItem(itemIndex)
    \/ handleToggleNote(itemIndex)
    \/ /\ ~listItem.notes.isOpen
       /\ handleDeleteItem(itemIndex)
    \/ /\ listItem.notes.isOpen
       /\ \E noteText \in NoteTexts : handleUpdateNoteText(itemIndex, noteText)

ShoppingList_cat ==
    \E itemIndex \in 1..Len(state.items) :
       ShoppingListItem(itemIndex, state.items[itemIndex])

itemsWithoutCategory == SelectSeq(state.items, LAMBDA item : Len(item.categories) = 0)

\* a submit button that is never disabled
submitDisabled_never(categoryInput) == FALSE

\* <button disabled={state.categoryInput.length < 3} type='submit'>: a form
\* whose submit button is disabled is submitted neither by a click nor by Enter
submitDisabled(categoryInput) == Len(categoryInput) < 3

\* A radio input fires onChange only when it becomes checked.
ModeInput(inputMode) ==
    /\ inputMode # state.mode
    /\ handleSwitchMode(inputMode)

Mounted == phase \in {"mounted", "running"}

AppView ==
    /\ version = "notes"
    /\ Mounted
    /\ \/ SearchInput
       \/ SearchResults
       \/ ShoppingList

AppView_qty ==
    /\ version = "quantity"
    /\ Mounted
    /\ \/ SearchInput
       \/ SearchResults
       \/ ShoppingList_qty

AppView_cat ==
    /\ version = "categories"
    /\ Mounted
    /\ \/ \E inputMode \in {"Build", "Shop", "Manage"} : ModeInput(inputMode)
       \/ /\ state.mode = "Build"
          /\ \/ SearchInput
             \/ SearchResults
             \/ ShoppingList_cat
       \/ /\ state.mode = "Shop"
          /\ \E itemIndex \in 1..Len(itemsWithoutCategory) :
                ShoppingListItem(itemIndex, itemsWithoutCategory[itemIndex])
       \/ /\ state.mode = "Manage"
          /\ \/ \E text \in CategoryInputs : handleUpdateCategoryText(text)
             \/ /\ ~submitDisabled(state.categoryInput)
                /\ Len(state.categories) < MaxCategories
                /\ handleAddCategory(state.categoryInput)

(***************************************************************************)
(* What the storage entry may hold when the page is first opened.          *)
(***************************************************************************)
StoredItemJson(label, isSelected, isOpen, text, quantity) ==
    JObj([label |-> JStr(label), isSelected |-> JBool(isSelected),
          notes |-> JObj([isOpen |-> JBool(isOpen), text |-> JStr(text)]),
          quantity |-> JNum(quantity)])

StoredStateJson(items, searchInput, resultsAreVisible) ==
    JObj([items |-> JArr(items), searchInput |-> JStr(searchInput),
          resultsAreVisible |-> JBool(resultsAreVisible)])

StoredTwoItems ==
    StoredStateJson(<<StoredItemJson("ham", TRUE, TRUE, "2%", 2),
                      StoredItemJson("egg", FALSE, FALSE, "", 1)>>, "eg", TRUE)

\* a state another build has written: the same label twice, and a key no schema has
StoredSameLabelTwice ==
    JObj([items |-> JArr(<<StoredItemJson("egg", TRUE, FALSE, "2%", 1),
                           StoredItemJson("egg", FALSE, FALSE, "", 1)>>),
          searchInput |-> JStr(""),
          resultsAreVisible |-> JBool(FALSE),
          theme |-> JStr("dark")])

StoredQuantityZero ==
    StoredStateJson(<<StoredItemJson("egg", FALSE, FALSE, "", 0)>>, "eg", TRUE)

StoredEmptyLabel ==
    StoredStateJson(<<StoredItemJson("", FALSE, FALSE, "", 1)>>, "eg", TRUE)

\* what the quantity version writes
StoredWithoutNotes ==
    StoredStateJson(<<JObj([label |-> JStr("egg"), isSelected |-> JBool(TRUE),
                            quantity |-> JNum(1)])>>, "e", TRUE)

StoredWithoutSearchInput ==
    JObj([items |-> JArr(<<StoredItemJson("egg", FALSE, FALSE, "", 1)>>),
          resultsAreVisible |-> JBool(TRUE)])

StoredQuantityAsString ==
    StoredStateJson(<<JObj([label |-> JStr("egg"), isSelected |-> JBool(FALSE),
                            notes |-> JObj([isOpen |-> JBool(FALSE), text |-> JStr("")]),
                            quantity |-> JStr("1")])>>, "", FALSE)

\* what the categories version accepts: the first item has a category
StoredWithCategories ==
    JObj([categories |-> JArr(<<JStr("dairy")>>),
          categoryInput |-> JStr(""),
          items |-> JArr(<<
              JObj([categories |-> JArr(<<JStr("dairy")>>), label |-> JStr("egg"),
                    isSelected |-> JBool(FALSE),
                    notes |-> JObj([isOpen |-> JBool(FALSE), text |-> JStr("")]),
                    quantity |-> JNum(1)]),
              JObj([categories |-> JArr(<<>>), label |-> JStr("ham"),
                    isSelected |-> JBool(FALSE),
                    notes |-> JObj([isOpen |-> JBool(FALSE), text |-> JStr("")]),
                    quantity |-> JNum(1)])>>),
          mode |-> JStr("Shop"),
          resultsAreVisible |-> JBool(FALSE),
          searchInput |-> JStr("")])

StoredAtStart ==
    <<NoItem, EmptyString, Malformed, TextOf(JNull),
      TextOf(StoredTwoItems), TextOf(StoredSameLabelTwice),
      TextOf(StoredQuantityZero), TextOf(StoredEmptyLabel),
      TextOf(StoredWithoutNotes), TextOf(StoredWithoutSearchInput),
      TextOf(StoredQuantityAsString), TextOf(StoredWithCategories)>>

Init ==
    /\ version \in Versions
    /\ phase = "unloaded"
    /\ state = NoState
    /\ \E d \in 1..Len(StoredAtStart) : storage = StoredAtStart[d]
    /\ queryCache = [itemQuery \in SearchInputs |-> "none"]
    /\ queryData = [itemQuery \in SearchInputs |-> NoData]
    /\ other = NoInstance

Next ==
    \/ AppLoad
    \/ AppLoad_qty
    \/ AppLoad_cat
    \/ MountEffect
    \/ queryFn
    \/ AppView
    \/ AppView_qty
    \/ AppView_cat

Spec == Init /\ [][Next]_vars

(***************************************************************************)
(* The categories version opened in a browser that has nothing stored,     *)
(* with a user who keeps using the page as long as it offers something.    *)
(***************************************************************************)
Init_cat ==
    /\ version = "categories"
    /\ phase = "unloaded"
    /\ state = NoState
    /\ storage = NoItem
    /\ queryCache = [itemQuery \in SearchInputs |-> "none"]
    /\ queryData = [itemQuery \in SearchInputs |-> NoData]
    /\ other = NoInstance

Next_cat ==
    \/ AppLoad_cat
    \/ MountEffect
    \/ queryFn
    \/ AppView_cat

FairSpec_cat == Init_cat /\ [][Next_cat]_vars /\ WF_vars(Next_cat)

(***************************************************************************)
(* src/src/App.tsx opened in a browser that has nothing stored.            *)
(***************************************************************************)
Init_notes ==
    /\ version = "notes"
    /\ phase = "unloaded"
    /\ state = NoState
    /\ storage = NoItem
    /\ queryCache = [itemQuery \in SearchInputs |-> "none"]
    /\ queryData = [itemQuery \in SearchInputs |-> NoData]
    /\ other = NoInstance

Next_notes ==
    \/ AppLoad
    \/ MountEffect
    \/ queryFn
    \/ AppView

Spec_notes == Init_notes /\ [][Next_notes]_vars

(***************************************************************************)
(* src/src/App.tsx with a user who types search inputs of which two are    *)
(* long enough to be requested, so that two requests are in flight at once *)
(* and are answered in either order.                                       *)
(***************************************************************************)
QueryInputs == {"e", "eg", "ha"}

AppView_query ==
    /\ version = "notes"
    /\ Mounted
    /\ \/ \E searchInput \in QueryInputs : handleSetSearchInput(searchInput)
       \/ SearchResults

Init_query ==
    /\ version = "notes"
    /\ phase = "unloaded"
    /\ state = NoState
    /\ storage = NoItem
    /\ queryCache = [itemQuery \in QueryInputs \cup {""} |-> "none"]
    /\ queryData = [itemQuery \in QueryInputs \cup {""} |-> NoData]
    /\ other = NoInstance

Next_query ==
    \/ AppLoad
    \/ MountEffect
    \/ queryFn
    \/ AppView_query

Spec_query == Init_query /\ [][Next_query]_vars

(***************************************************************************)
(* Two instances of src/src/App.tsx (two tabs of one browser) on the same  *)
(* storage entry.  Each instance has its own reducer state and query       *)
(* cache; a tab runs one handler or effect at a time and setItem replaces  *)
(* the stored string as a whole.  phase, state and queryCache are those of *)
(* the instance that takes the next step, `other` holds the instance that  *)
(* waits, and SwitchTab exchanges the two, so that the steps of the two    *)
(* instances interleave in every order.  The user types in the search box  *)
(* and uses the list; no search result is selected.                        *)
(***************************************************************************)
SwitchTab ==
    /\ other # NoInstance
    /\ phase' = other.phase
    /\ state' = other.state
    /\ queryCache' = other.queryCache
    /\ queryData' = other.queryData
    /\ other' = [phase |-> phase, state |-> state, queryCache |-> queryCache,
                 queryData |-> queryData]
    /\ UNCHANGED <<version, storage>>

AppView_tabs ==
    /\ version = "notes"
    /\ Mounted
    /\ \/ SearchInput
       \/ ShoppingList

\* what the first visit of the two tabs finds stored
StoredOneItem ==
    StoredStateJson(<<StoredItemJson("egg", FALSE, FALSE, "", 1)>>, "", FALSE)

Init_tabs ==
    /\ version = "notes"
    /\ phase = "unloaded"
    /\ state = NoState
    /\ storage = TextOf(StoredOneItem)
    /\ queryCache = [itemQuery \in SearchInputs |-> "none"]
    /\ queryData = [itemQuery \in SearchInputs |-> NoData]
    /\ other = [phase |-> "unloaded", state |-> NoState,
                queryCache |-> [itemQuery \in SearchInputs |-> "none"],
                queryData |-> [itemQuery \in SearchInputs |-> NoData]]

Next_tabs ==
    \/ AppLoad
    \/ MountEffect
    \/ AppView_tabs
    \/ SwitchTab

Spec_tabs == Init_tabs /\ [][Next_tabs]_vars

(***************************************************************************)
(* The reducer of src/src/App.tsx as a function: the notes version running *)
(* in any state of a bounded set, and ChangeItemQuantity dispatched with   *)
(* any label and any change, also those no handler passes.                 *)
(***************************************************************************)
ReducerChanges == {-1, 1, 2}

ReducerItems ==
    [label : SearchResultLabels,
     isSelected : BOOLEAN,
     notes : {[isOpen |-> FALSE, text |-> ""], [isOpen |-> TRUE, text |-> "2%"]},
     quantity : 1..MaxQuantity]

ReducerStates ==
    [items : UNION {[1..n -> ReducerItems] : n \in 0..ReducerMaxLen},
     searchInput : {"", "eg"},
     resultsAreVisible : BOOLEAN]

Init_reducer ==
    /\ version = "notes"
    /\ phase = "running"
    /\ state \in ReducerStates
    /\ storage = JSONstringify(state)
    /\ queryCache = useFoodQuery([itemQuery \in SearchInputs |-> "none"], state.searchInput)
    /\ queryData = [itemQuery \in SearchInputs |-> NoData]
    /\ other = NoInstance

Next_reducer ==
    \E itemLabel \in SearchResultLabels, change \in ReducerChanges :
       /\ \A i \in 1..Len(state.items) :
             state.items[i].label = itemLabel
             => state.items[i].quantity + change \in 0..MaxQuantity
       /\ dispatch([type |-> "ChangeItemQuantity", change |-> change, itemLabel |-> itemLabel])

Spec_reducer == Init_reducer /\ [][Next_reducer]_vars

(***************************************************************************)
(* Properties.                                                             *)
(***************************************************************************)
\* The storage entry is the text of an object that has exactly the keys of s
\* and under each key the value s has there.
StoredIsState(s) ==
    /\ storage.item = "json"
    /\ storage.json.type = "object"
    /\ LET o == storage.json.obj
       IN  /\ DOMAIN o = DOMAIN s
           /\ o.searchInput = JStr(s.searchInput)
           /\ o.resultsAreVisible = JBool(s.resultsAreVisible)
           /\ o.items.type = "array"
           /\ Len(o.items.arr) = Len(s.items)
           /\ \A i \in 1..Len(s.items) :
                 LET it == s.items[i]
                     jo == o.items.arr[i].obj
                 IN  /\ DOMAIN jo = DOMAIN it
                     /\ jo.label = JStr(it.label)
                     /\ jo.isSelected = JBool(it.isSelected)
                     /\ jo.quantity = JNum(it.quantity)
                     /\ "notes" \in DOMAIN it =>
                           jo.notes = JObj([isOpen |-> JBool(it.notes.isOpen),
                                            text |-> JStr(it.notes.text)])
                     /\ "categories" \in DOMAIN it =>
                           /\ jo.categories.type = "array"
                           /\ Len(jo.categories.arr) = Len(it.categories)
                           /\ \A c \in 1..Len(it.categories) :
                                 jo.categories.arr[c] = JStr(it.categories[c])
           /\ "mode" \in DOMAIN s =>
                 /\ o.mode = JStr(s.mode)
                 /\ o.categoryInput = JStr(s.categoryInput)
                 /\ o.categories.type = "array"
                 /\ Len(o.categories.arr) = Len(s.categories)
                 /\ \A c \in 1..Len(s.categories) :
                       o.categories.arr[c] = JStr(s.categories[c])

\* C1: in the notes and the categories version, once the persistence effect
\* has run (after the first render and after every dispatched action) the
\* storage entry is the serialization of the full current state, and every
\* write to the entry stores the state the application is in at that moment.
C1_EveryWriteStoresTheState ==
    (version \in {"notes", "categories"} /\ storage' # storage)
    => (Mounted /\ StoredIsState(state))'

C1_WriteThrough ==
    /\ [](version \in {"notes", "categories"} /\ phase = "running" => StoredIsState(state))
    /\ [][C1_EveryWriteStoresTheState]_vars

C1_Witness ==
    /\ version = "categories"
    /\ phase = "running"
    /\ Len(state.items) >= 1
    /\ Len(state.categories) >= 1
    /\ state.categoryInput # ""
    /\ storage = JSONstringify(state)

\* C2: notes version: when the stored text parses and satisfies
\* shoppingListStateSchema, the initial state has the stored items in the
\* stored order with the stored label, isSelected, notes and quantity, and
\* the stored searchInput and resultsAreVisible.
C2_RehydratesValidState ==
    (/\ version = "notes"
     /\ phase = "mounted"
     /\ storage.item = "json"
     /\ shoppingListStateSchema(storage.json))
    => LET o == storage.json.obj
       IN  /\ state.searchInput = o.searchInput.str
           /\ state.resultsAreVisible = o.resultsAreVisible.bool
           /\ Len(state.items) = Len(o.items.arr)
           /\ \A i \in 1..Len(state.items) :
                 LET jo == o.items.arr[i].obj
                 IN  /\ state.items[i].label = jo.label.str
                     /\ state.items[i].isSelected = jo.isSelected.bool
                     /\ state.items[i].notes.isOpen = jo.notes.obj.isOpen.bool
                     /\ state.items[i].notes.text = jo.notes.obj.text.str
                     /\ state.items[i].quantity = jo.quantity.num

C2_Witness ==
    /\ version = "notes"
    /\ phase = "mounted"
    /\ storage = TextOf(StoredTwoItems)
    /\ Len(state.items) = 2
    /\ state.items[1].isSelected

\* The stored values the fallback is about: not an object, a top-level field
\* missing, or an item without notes, with quantity 0 or less, or with an
\* empty label.
C3_Rejected(j) ==
    \/ j.type # "object"
    \/ /\ j.type = "object"
       /\ {"items", "searchInput", "resultsAreVisible"} \ DOMAIN j.obj # {}
    \/ /\ Has(j, "items")
       /\ j.obj.items.type = "array"
       /\ \E i \in 1..Len(j.obj.items.arr) :
             LET it == j.obj.items.arr[i]
             IN  /\ it.type = "object"
                 /\ \/ "notes" \notin DOMAIN it.obj
                    \/ /\ Has(it, "quantity")
                       /\ it.obj.quantity.type = "number"
                       /\ it.obj.quantity.num <= 0
                    \/ /\ Has(it, "label")
                       /\ it.obj.label.type = "string"
                       /\ Len(it.obj.label.str) = 0

\* C3: notes version: when the stored text is well-formed JSON that fails
\* shoppingListStateSchema, loading ends with the empty state
\* {items: [], searchInput: '', resultsAreVisible: false} and nothing of the
\* stored value is kept.
C3_FallsBackToEmpty ==
    (/\ version = "notes"
     /\ phase \in {"mounted", "error"}
     /\ storage.item = "json"
     /\ (C3_Rejected(storage.json) \/ ~shoppingListStateSchema(storage.json)))
    => /\ phase = "mounted"
       /\ state = [items |-> <<>>, searchInput |-> "", resultsAreVisible |-> FALSE]

C3_Witness ==
    /\ version = "notes"
    /\ phase = "mounted"
    /\ storage = TextOf(StoredQuantityZero)
    /\ state.items = <<>>

\* C4: notes and categories version: with nothing stored under the key,
\* loading succeeds and the initial state is the empty state (in the
\* categories version also no categories, empty categoryInput, mode 'Build').
C4_FirstLoadIsEmpty ==
    (/\ version \in {"notes", "categories"}
     /\ storage = NoItem
     /\ phase # "unloaded")
    => /\ phase = "mounted"
       /\ state = IF version = "notes"
                  THEN [items |-> <<>>, searchInput |-> "", resultsAreVisible |-> FALSE]
                  ELSE [categories |-> <<>>, categoryInput |-> "", items |-> <<>>,
                        mode |-> "Build", searchInput |-> "", resultsAreVisible |-> FALSE]

C4_Witness ==
    /\ version = "categories"
    /\ storage = NoItem
    /\ phase = "mounted"
    /\ state.mode = "Build"

\* C5: quantity version: with nothing stored under the key, the application
\* loads without an error and starts in the empty state.
C5_QuantityFirstLoadIsEmpty ==
    (/\ version = "quantity"
     /\ storage = NoItem
     /\ phase # "unloaded")
    => /\ phase = "mounted"
       /\ state = [items |-> <<>>, searchInput |-> "", resultsAreVisible |-> FALSE]

\* C6: notes and categories version: for every stored string, also one that
\* is not well-formed JSON, loading ends in the stored state or in the empty
\* state, never in an error.
C6_LoadNeverFails ==
    (/\ version \in {"notes", "categories"}
     /\ phase \in {"mounted", "error"})
    => /\ phase = "mounted"
       /\ IF version = "notes"
          THEN \/ state = emptyState
               \/ /\ storage.item = "json"
                  /\ shoppingListStateSchema(storage.json)
                  /\ state = shoppingListStateData(storage.json)
          ELSE \/ state = emptyState_cat
               \/ /\ storage.item = "json"
                  /\ shoppingListStateSchema_cat(storage.json)
                  /\ state = shoppingListStateData_cat(storage.json)

\* C7: notes version: every state the handlers reach satisfies
\* shoppingListStateSchema, so the state persisted and loaded again is the
\* state before the reload.
C7_PersistReloadRoundTrip ==
    (version = "notes" /\ Mounted)
    => LET text == savedStateText(JSONstringify(state))
       IN  /\ ~JSONparseThrows(text)
           /\ shoppingListStateSchema(JSONparse(text))
           /\ intialState(JSONparse(text)) = state

C7_Witness ==
    /\ version = "notes"
    /\ phase = "running"
    /\ Len(state.items) = 2
    /\ state.items[1].quantity = 2
    /\ state.items[2].notes.text = "2%"
    /\ state.items[2].notes.isOpen
    /\ intialState(JSONparse(JSONstringify(state))) = state

HasLabel(itemLabel) ==
    \E i \in 1..Len(state.items) : state.items[i].label = itemLabel

\* C8: notes version: handleSetListItem with a label no item has puts
\* {label, isSelected: false, notes: {isOpen: false, text: ''}, quantity: 1}
\* at position 0, followed by all previous items, unchanged and in their
\* previous order, and leaves searchInput unchanged.
C8_AddStep ==
    \A itemLabel \in SearchResultLabels :
       (/\ version = "notes"
        /\ Mounted
        /\ ~HasLabel(itemLabel)
        /\ handleSetListItem(itemLabel))
       => /\ state'.items = <<[label |-> itemLabel,
                               isSelected |-> FALSE,
                               notes |-> [isOpen |-> FALSE, text |-> ""],
                               quantity |-> 1]>> \o state.items
          /\ state'.searchInput = state.searchInput

C8_AddsNewItemFirst == [][C8_AddStep]_vars

C8_Witness ==
    /\ version = "notes"
    /\ phase = "running"
    /\ Len(state.items) = 3
    /\ state.items[1] = [label |-> "ham", isSelected |-> FALSE,
                         notes |-> [isOpen |-> FALSE, text |-> ""], quantity |-> 1]
    /\ state.items[2].label = "egg"
    /\ state.items[2].isSelected
    /\ state.items[3].label = "egg"
    /\ ~state.resultsAreVisible

\* C9: notes version: handleSetListItem with a label the list already has
\* adds no item and keeps the length and the order of the list; the quantity
\* of the item with that label grows by exactly 1 and its isSelected and notes
\* stay; every item with another label stays as it is.  (A list loaded from
\* storage may hold the label more than once: then this holds of each item
\* with the label.)
C9_ReselectStep ==
    \A itemLabel \in SearchResultLabels :
       (/\ version = "notes"
        /\ Mounted
        /\ HasLabel(itemLabel)
        /\ handleSetListItem(itemLabel))
       => /\ Len(state'.items) = Len(state.items)
          /\ \A i \in 1..Len(state.items) :
                /\ state'.items[i].label = state.items[i].label
                /\ state'.items[i].isSelected = state.items[i].isSelected
                /\ state'.items[i].notes = state.items[i].notes
                /\ state'.items[i].quantity =
                      IF state.items[i].label = itemLabel
                      THEN state.items[i].quantity + 1
                      ELSE state.items[i].quantity

C9_ReselectAddsOne == [][C9_ReselectStep]_vars

C9_Witness ==
    /\ version = "notes"
    /\ phase = "running"
    /\ Len(state.items) = 2
    /\ state.items[1].label = "ham" /\ state.items[1].quantity = 1
    /\ state.items[2].label = "egg" /\ state.items[2].quantity = 2
    /\ state.items[2].isSelected
    /\ state.searchInput = "eg"
    /\ state.resultsAreVisible

SomeItemHasCategory ==
    /\ Mounted
    /\ \E i \in 1..Len(state.items) : Len(state.items[i].categories) > 0

\* C10: categories version: from the empty state the user's actions lead to
\* a state in which some item's categories list is non-empty.
C10_ItemsGetCategorised == <>SomeItemHasCategory

\* What the reducer does instead: no action writes an item's categories, so
\* from the empty state every item's categories list stays empty.
C10_NoItemIsEverCategorised == ~SomeItemHasCategory

\* C11: in every version a request to the food API is issued only for a
\* search input longer than 1 character; while the search input has length 0
\* or 1 no request for it is issued or in flight, and SearchResults shows
\* neither 'Loading...' nor a result list.
C11_SearchGatedByLength ==
    /\ \A itemQuery \in DOMAIN queryCache :
          queryCache[itemQuery] # "none" => Len(itemQuery) > 1
    /\ (Mounted /\ Len(state.searchInput) <= 1)
       => /\ queryCache[state.searchInput] = "none"
          /\ SearchResultsContent(queryCache, state.searchInput) = ""

\* a two-character query has returned data, then the input was cut to one
\* character: nothing was requested for it and nothing is shown
C11_Witness ==
    /\ phase = "running"
    /\ queryCache["eg"] = "success"
    /\ state.searchInput = "e"
    /\ state.resultsAreVisible
    /\ queryCache["e"] = "none"
    /\ SearchResultsContent(queryCache, "e") = ""

\* A step of the notes version: selecting a search result, whether or not its
\* label is in the list, leaves resultsAreVisible false; and resultsAreVisible
\* turns from false to true only by a change of the search input.
C12_DismissStep ==
    /\ \A itemLabel \in SearchResultLabels :
          (version = "notes" /\ Mounted /\ handleSetListItem(itemLabel))
          => ~state'.resultsAreVisible
    /\ (version = "notes" /\ Mounted /\ ~state.resultsAreVisible /\ state'.resultsAreVisible)
       => \E searchInput \in SearchInputs : handleSetSearchInput(searchInput)

\* C12: notes version: after the user selects any search result
\* (handleSetListItem with any label, in the list already or not)
\* resultsAreVisible is false, and it stays false until the next change of
\* the search input sets it to true again.
C12_SelectionDismissesDropdown == [][C12_DismissStep]_vars

\* C13: notes version: DeletedItem with an itemIndex of the list removes
\* exactly the item at itemIndex: the list is shorter by 1, the items before
\* it and the items after it are unchanged and keep their order, and
\* searchInput and resultsAreVisible are unchanged.
C13_DeleteStep ==
    (version = "notes" /\ Mounted)
    => \A itemIndex \in 1..Len(state.items) :
          handleDeleteItem(itemIndex)
          => /\ Len(state'.items) = Len(state.items) - 1
             /\ \A i \in 1..(itemIndex - 1) : state'.items[i] = state.items[i]
             /\ \A i \in itemIndex..(Len(state.items) - 1) :
                   state'.items[i] = state.items[i + 1]
             /\ state'.searchInput = state.searchInput
             /\ state'.resultsAreVisible = state.resultsAreVisible

C13_DeleteRemovesOneItem == [][C13_DeleteStep]_vars

\* the stored list of two items after its second item was deleted: no request
\* was sent, so no item was added
C13_Witness ==
    /\ version = "notes"
    /\ phase = "running"
    /\ \A itemQuery \in DOMAIN queryCache : queryCache[itemQuery] = "none"
    /\ Len(state.items) = 1
    /\ state.items[1].label = "egg"
    /\ state.items[1].isSelected
    /\ state.items[1].notes.text = "2%"

\* C14: notes version: ToggledItem with an itemIndex of the list negates
\* isSelected of the item at itemIndex and changes nothing else (the other
\* items, that item's label, quantity and notes, searchInput,
\* resultsAreVisible); ToggledItem applied again with the same index gives
\* back the state before the first one.
C14_ToggleStep ==
    (version = "notes" /\ Mounted)
    => \A itemIndex \in 1..Len(state.items) :
          handleToggleItem(itemIndex)
          => /\ Len(state'.items) = Len(state.items)
             /\ \A i \in 1..Len(state.items) :
                   /\ state'.items[i].label = state.items[i].label
                   /\ state'.items[i].quantity = state.items[i].quantity
                   /\ state'.items[i].notes = state.items[i].notes
                   /\ state'.items[i].isSelected =
                         IF i = itemIndex
                         THEN ~state.items[i].isSelected
                         ELSE state.items[i].isSelected
             /\ state'.searchInput = state.searchInput
             /\ state'.resultsAreVisible = state.resultsAreVisible
             /\ shoppingListReducer(state', [type |-> "ToggledItem",
                                             itemIndex |-> itemIndex]) = state

C14_ToggleNegatesSelection == [][C14_ToggleStep]_vars

\* the stored list [egg (ticked), egg] after the tick of the first was removed
C14_Witness ==
    /\ version = "notes"
    /\ phase = "running"
    /\ \A itemQuery \in DOMAIN queryCache : queryCache[itemQuery] = "none"
    /\ Len(state.items) = 2
    /\ ~state.items[1].isSelected
    /\ state.items[1].notes.text = "2%"
    /\ ~state.items[2].isSelected

\* C15: notes version: ToggledNote negates only notes.isOpen of the item at
\* itemIndex and keeps notes.text; UpdateNoteText sets only notes.text of the
\* item at itemIndex and keeps notes.isOpen; both leave every other item, the
\* item's label, quantity and isSelected, the order of the list, searchInput
\* and resultsAreVisible unchanged.
C15_NoteStep ==
    (version = "notes" /\ Mounted)
    => \A itemIndex \in 1..Len(state.items) :
          /\ handleToggleNote(itemIndex)
             => /\ state'.items[itemIndex].notes.isOpen = ~state.items[itemIndex].notes.isOpen
                /\ state'.items[itemIndex].notes.text = state.items[itemIndex].notes.text
          /\ \A noteText \in NoteTexts :
                handleUpdateNoteText(itemIndex, noteText)
                => /\ state'.items[itemIndex].notes.text = noteText
                   /\ state'.items[itemIndex].notes.isOpen = state.items[itemIndex].notes.isOpen
          /\ (\/ handleToggleNote(itemIndex)
              \/ \E noteText \in NoteTexts : handleUpdateNoteText(itemIndex, noteText))
             => /\ Len(state'.items) = Len(state.items)
                /\ \A i \in 1..Len(state.items) :
                      /\ state'.items[i].label = state.items[i].label
                      /\ state'.items[i].quantity = state.items[i].quantity
                      /\ state'.items[i].isSelected = state.items[i].isSelected
                      /\ i # itemIndex => state'.items[i] = state.items[i]
                /\ state'.searchInput = state.searchInput
                /\ state'.resultsAreVisible = state.resultsAreVisible

C15_NoteActionsTouchOnlyTheNote == [][C15_NoteStep]_vars

\* the stored list [egg '2%', egg ''] after the editor of the second item was
\* opened and '2%' typed into it
C15_Witness ==
    /\ version = "notes"
    /\ phase = "running"
    /\ \A itemQuery \in DOMAIN queryCache : queryCache[itemQuery] = "none"
    /\ Len(state.items) = 2
    /\ state.items[1].notes = [isOpen |-> FALSE, text |-> "2%"]
    /\ state.items[1].isSelected
    /\ state.items[2].notes = [isOpen |-> TRUE, text |-> "2%"]
    /\ ~state.items[2].isSelected

\* C16: notes version: ChangeItemQuantity adds `change` to the quantity of
\* every item whose label is itemLabel and changes nothing else; when no item
\* has the label the items are the previous ones; the length and the order
\* of the list, the labels, isSelected, notes, searchInput and
\* resultsAreVisible never change.
C16_ChangeStep ==
    (version = "notes" /\ Mounted)
    => \A itemLabel \in SearchResultLabels, change \in ReducerChanges :
          dispatch([type |-> "ChangeItemQuantity", change |-> change, itemLabel |-> itemLabel])
          => /\ Len(state'.items) = Len(state.items)
             /\ \A i \in 1..Len(state.items) :
                   /\ state'.items[i].label = state.items[i].label
                   /\ state'.items[i].isSelected = state.items[i].isSelected
                   /\ state'.items[i].notes = state.items[i].notes
                   /\ state'.items[i].quantity =
                         IF state.items[i].label = itemLabel
                         THEN state.items[i].quantity + change
                         ELSE state.items[i].quantity
             /\ ~HasLabel(itemLabel) => state'.items = state.items
             /\ state'.searchInput = state.searchInput
             /\ state'.resultsAreVisible = state.resultsAreVisible

C16_ChangeTouchesOnlyQuantities == [][C16_ChangeStep]_vars

\* two items with the same label after a change of -1, next to another label
C16_Witness ==
    /\ version = "notes"
    /\ Len(state.items) = 2
    /\ state.items[1].label = "egg" /\ state.items[1].quantity = 0
    /\ state.items[2].label = "egg" /\ state.items[2].quantity = 0
    /\ state.items[2].notes.isOpen

\* C17: notes version: SetSearchInput sets searchInput to the given string
\* and resultsAreVisible to true and leaves items unchanged, so typing in the
\* search box never adds, removes or alters a list item.
C17_SearchInputStep ==
    (version = "notes" /\ Mounted)
    => \A searchInput \in SearchInputs :
          handleSetSearchInput(searchInput)
          => /\ state'.searchInput = searchInput
             /\ state'.resultsAreVisible
             /\ state'.items = state.items

C17_TypingKeepsTheList == [][C17_SearchInputStep]_vars

\* the stored list of two items, search input '' and hidden results, after 'e'
\* was typed
C17_Witness ==
    /\ version = "notes"
    /\ phase = "running"
    /\ \A itemQuery \in DOMAIN queryCache : queryCache[itemQuery] = "none"
    /\ state.searchInput = "e"
    /\ state.resultsAreVisible
    /\ Len(state.items) = 2
    /\ state.items[1].notes.text = "2%"

\* C18: notes version: in every state the handlers reach from the empty
\* state or from a stored state that passed the schema, every item's quantity
\* is at least 1 and passes the schema's z.number().min(1).positive().
C18_QuantityStaysValid ==
    (version = "notes" /\ Mounted)
    => \A i \in 1..Len(state.items) :
          /\ state.items[i].quantity >= 1
          /\ IsQuantity(JNum(state.items[i].quantity))

\* a new item that was selected a second time
C18_Witness ==
    /\ version = "notes"
    /\ phase = "running"
    /\ storage = JSONstringify(state)
    /\ queryCache["eg"] = "success"
    /\ Len(state.items) = 1
    /\ state.items[1].label = "ham"
    /\ state.items[1].quantity >= 2

\* C19: categories version: AddCategory puts newCategory at position 0 of
\* categories, followed by the previous categories in their order, sets
\* categoryInput to the empty string and leaves items, mode, searchInput and
\* resultsAreVisible unchanged.
C19_AddCategoryStep ==
    (version = "categories" /\ Mounted)
    => \A newCategory \in CategoryInputs :
          handleAddCategory(newCategory)
          => /\ state'.categories = <<newCategory>> \o state.categories
             /\ state'.categoryInput = ""
             /\ state'.items = state.items
             /\ state'.mode = state.mode
             /\ state'.searchInput = state.searchInput
             /\ state'.resultsAreVisible = state.resultsAreVisible

C19_AddCategoryPutsItFirst == [][C19_AddCategoryStep]_vars

\* 'tea' added to the stored categories ['dairy']
C19_Witness ==
    /\ version = "categories"
    /\ phase = "running"
    /\ state.categories = <<"tea", "dairy">>
    /\ state.categoryInput = ""
    /\ state.mode = "Manage"
    /\ Len(state.items) = 2

\* C20: categories version: in every state reached through the page from the
\* empty state, every element of state.categories has at least 3 characters,
\* as categorySchema requires, so the categories are accepted on reload.
C20_CategoriesStayValid ==
    (version = "categories" /\ Mounted)
    => /\ \A c \in 1..Len(state.categories) : Len(state.categories[c]) >= 3
       /\ categoriesSchema(JsonStrings(state.categories))

\* from the empty state: 'tea' added twice, then a text too short to add typed
C20_Witness ==
    /\ version = "categories"
    /\ phase = "running"
    /\ state.categories = <<"tea", "tea">>
    /\ state.categoryInput = "ab"
    /\ state.items = <<>>

\* A step of the categories version: SwitchMode sets mode to the requested
\* value and leaves the rest of the state, and mode changes in no other step.
C21_SwitchModeStep ==
    (version = "categories" /\ Mounted /\ Mounted')
    => /\ \A mode \in {"Build", "Shop", "Manage"} :
             handleSwitchMode(mode)
             => /\ state'.mode = mode
                /\ state'.categories = state.categories
                /\ state'.categoryInput = state.categoryInput
                /\ state'.items = state.items
                /\ state'.searchInput = state.searchInput
                /\ state'.resultsAreVisible = state.resultsAreVisible
       /\ state'.mode # state.mode
          => \E mode \in {"Build", "Shop", "Manage"} : handleSwitchMode(mode)

\* C21: categories version: mode is always one of 'Build', 'Shop', 'Manage'
\* and is 'Build' in the empty state; SwitchMode sets mode to the requested
\* value and leaves categories, categoryInput, items, searchInput and
\* resultsAreVisible unchanged; no other action changes mode.
C21_OnlySwitchModeChangesMode ==
    /\ []((version = "categories" /\ Mounted)
          => /\ state.mode \in {"Build", "Shop", "Manage"}
             /\ emptyState_cat.mode = "Build"
             /\ storage = NoItem /\ phase = "mounted" => state.mode = "Build")
    /\ [][C21_SwitchModeStep]_vars

\* the stored state (mode 'Shop') after a category was typed in the Manage
\* panel and the user went back to the Shop panel
C21_Witness ==
    /\ version = "categories"
    /\ phase = "running"
    /\ state.mode = "Shop"
    /\ state.categoryInput = "tea"
    /\ state.categories = <<"dairy">>
    /\ Len(state.items) = 2

\* The storage entry is the serialization of the state s, and a load of the
\* entry starts from s.
C22_StoredIs(s) ==
    /\ StoredIsState(s)
    /\ ~JSONparseThrows(savedStateText(storage))
    /\ intialState(JSONparse(savedStateText(storage))) = s

\* a write to the entry is made by the instance that takes the step and
\* stores the whole state of that instance
C22_WriteStep ==
    storage' # storage
    => /\ other' = other
       /\ phase' = "running"
       /\ C22_StoredIs(state)'

\* C22: two instances of the notes version on one storage entry, their
\* handlers and persistence effects interleaved in any order: once an effect
\* has run, the stored value is the complete state of one instance, the one
\* whose effect ran last, never a mixture of the two, and a load of it
\* starts from that instance's state.
C22_StoredIsOneInstance ==
    /\ []((phase = "running" \/ other.phase = "running")
          => \/ phase = "running" /\ C22_StoredIs(state)
             \/ other.phase = "running" /\ C22_StoredIs(other.state))
    /\ [][C22_WriteStep]_vars

\* both tabs run and have diverged in the list and in the search input; the
\* entry holds the state of the tab that wrote last
C22_Witness ==
    /\ phase = "running"
    /\ other.phase = "running"
    /\ state.items = <<>>
    /\ state.searchInput = "e"
    /\ Len(other.state.items) = 1
    /\ other.state.items[1].notes.text = "2%"
    /\ other.state.searchInput = ""
    /\ storage = JSONstringify(state)

\* C23: notes version: in every state reached from the empty state through
\* the handlers the labels of the items are pairwise distinct, also after
\* the same label was selected several times in a row.
C23_LabelsAreDistinct ==
    (version = "notes" /\ Mounted)
    => \A i, j \in 1..Len(state.items) :
          i # j => state.items[i].label # state.items[j].label

\* both labels selected twice, starting from the empty list
C23_Witness ==
    /\ version = "notes"
    /\ phase = "running"
    /\ Len(state.items) = 2
    /\ state.items[1].label = "ham" /\ state.items[1].quantity = 2
    /\ state.items[2].label = "egg" /\ state.items[2].quantity = 2

\* A step of the notes version: the reducer does not throw; a step that
\* shortens the list removes exactly the item at a position of the list; and
\* an index action that takes effect carries a position of the list.
C24_IndexStep ==
    (version = "notes" /\ Mounted)
    => /\ phase' # "error"
       /\ \A itemIndex \in 1..(MaxItems + 1) :
             (\/ handleToggleItem(itemIndex)
              \/ handleToggleNote(itemIndex)
              \/ \E noteText \in NoteTexts : handleUpdateNoteText(itemIndex, noteText))
             => itemIndex \in 1..Len(state.items)
       /\ (Mounted' /\ Len(state'.items) < Len(state.items))
          => \E itemIndex \in 1..Len(state.items) :
                /\ handleDeleteItem(itemIndex)
                /\ ~state.items[itemIndex].notes.isOpen
                /\ state'.items = splice(state.items, itemIndex)

\* C24: notes version: every DeletedItem, ToggledItem, ToggledNote and
\* UpdateNoteText the page dispatches carries an itemIndex within the list
\* the reducer applies it to, so the reducer never reads a missing item (a
\* TypeError), and DeletedItem removes the item whose button was used.
C24_IndexActionsHitAnItem == [][C24_IndexStep]_vars

\* the last of three items was ticked, its editor opened and '2%' typed
C24_Witness ==
    /\ version = "notes"
    /\ phase = "running"
    /\ Len(state.items) = 3
    /\ state.items[1].label = "ham"
    /\ state.items[3].isSelected
    /\ state.items[3].notes = [isOpen |-> TRUE, text |-> "2%"]

\* A step in the Shop panel: a control of the displayed item listItem changes
\* or removes no item of state.items that has another label.
C25_ShopStep ==
    (version = "categories" /\ Mounted /\ state.mode = "Shop")
    => \A itemIndex \in 1..Len(itemsWithoutCategory) :
          LET listItem == itemsWithoutCategory[itemIndex]
          IN  ShoppingListItem(itemIndex, listItem)
              => /\ Mounted'
                 /\ SelectSeq(state'.items, LAMBDA item : item.label # listItem.label)
                    = SelectSeq(state.items, LAMBDA item : item.label # listItem.label)

\* C25: categories version: ticking, opening the note of, editing the note
\* of, or deleting an item shown in the Shop panel changes exactly the item
\* of state.items that has the displayed label, and no other item.
C25_ShopActsOnDisplayedItem == [][C25_ShopStep]_vars

\* A step of the categories version that edits the category input.
C26_CategoryTextStep ==
    (version = "categories" /\ Mounted)
    => \A text \in CategoryInputs :
          handleUpdateCategoryText(text)
          => /\ state'.categoryInput = text
             /\ state'.categories = state.categories
             /\ state'.items = state.items
             /\ state'.mode = state.mode
             /\ state'.searchInput = state.searchInput
             /\ state'.resultsAreVisible = state.resultsAreVisible

\* C26: categories version: editing the category input changes only
\* categoryInput; categories, items, mode, searchInput and resultsAreVisible
\* (the visibility of the search dropdown) are unchanged.
C26_CategoryTextTouchesOnlyTheInput == [][C26_CategoryTextStep]_vars

\* A step of the notes version: an item is deleted only while its note editor
\* is closed, and its note text is changed only while the editor is open.
C27_GuardStep ==
    (version = "notes" /\ Mounted)
    => \A itemIndex \in 1..Len(state.items) :
          /\ handleDeleteItem(itemIndex) => ~state.items[itemIndex].notes.isOpen
          /\ \A noteText \in NoteTexts :
                (noteText # state.items[itemIndex].notes.text
                 /\ handleUpdateNoteText(itemIndex, noteText))
                => state.items[itemIndex].notes.isOpen

\* C27: notes version: the delete control of an item is offered only while
\* its notes.isOpen is false and UpdateNoteText is dispatched for an item only
\* while its notes.isOpen is true; so between the ToggledNote that opens an
\* item's note and the one that closes it the item is not removed through its
\* own delete control.
C27_NoteEditorGuards == [][C27_GuardStep]_vars

\* a list that came from storage (no response has arrived) after one of its
\* two items was deleted and the note of the other was edited
C27_Witness ==
    /\ version = "notes"
    /\ phase = "running"
    /\ queryCache["eg"] = "fetching"
    /\ Len(state.items) = 1
    /\ state.items[1].label = "egg"
    /\ state.items[1].notes = [isOpen |-> TRUE, text |-> "2%"]
    /\ ~state.items[1].isSelected

\* C28: notes version: whenever SearchResults renders a result list, the
\* list is the response to the request for the present searchInput; the
\* response to a request for an earlier search input, whenever it arrives,
\* is not shown as the result of the present one.
C28_ResultsMatchTheQuery ==
    (version = "notes" /\ Mounted
     /\ SearchResultsContent(queryCache, state.searchInput) = "list")
    => /\ queryData[state.searchInput] = response(state.searchInput)
       /\ queryData[state.searchInput].query = state.searchInput

\* The requests for 'eg' and for 'ha' were both answered, in either order;
\* the input is 'eg' and the list shown is the response for 'eg'.
C28_Witness ==
    /\ version = "notes"
    /\ phase = "running"
    /\ state.searchInput = "eg"
    /\ state.resultsAreVisible
    /\ queryCache["eg"] = "success"
    /\ queryCache["ha"] = "success"
    /\ queryData["ha"].query = "ha"
    /\ state.items = <<>>

\* C29: categories version: in every state reached from the empty state
\* through the page the elements of state.categories are pairwise distinct.
C29_CategoriesAreDistinct ==
    (version = "categories" /\ Mounted)
    => \A c, d \in 1..Len(state.categories) :
          c # d => state.categories[c] # state.categories[d]

\* the state with the notes field of every item projected away
C30_Project(s) ==
    [s EXCEPT !.items = [i \in 1..Len(s.items) |->
                            [label |-> s.items[i].label,
                             isSelected |-> s.items[i].isSelected,
                             quantity |-> s.items[i].quantity]]]

\* the reducers of the notes and of the quantity version agree on the action
C30_Agree(s, action) ==
    C30_Project(shoppingListReducer(s, action))
    = shoppingListReducer_qty(C30_Project(s), action)

\* C30: for every state and every ChangeItemQuantity, DeletedItem, SetItem,
\* SetSearchInput and ToggledItem (index in range) the result of the notes
\* version's reducer with the notes projected away is the result of the
\* quantity version's reducer on the projected state; ToggledNote and
\* UpdateNoteText leave the projected state unchanged.
C30_NotesReducerExtendsQuantityReducer ==
    (version = "notes" /\ Mounted)
    => /\ \A itemLabel \in SearchResultLabels :
             /\ C30_Agree(state, [type |-> "SetItem", itemLabel |-> itemLabel])
             /\ \A change \in ReducerChanges :
                   C30_Agree(state, [type |-> "ChangeItemQuantity", change |-> change,
                                     itemLabel |-> itemLabel])
       /\ \A searchInput \in SearchInputs :
             C30_Agree(state, [type |-> "SetSearchInput", searchInput |-> searchInput])
       /\ \A itemIndex \in 1..(Len(state.items) + 1) :
             C30_Agree(state, [type |-> "DeletedItem", itemIndex |-> itemIndex])
       /\ \A itemIndex \in 1..Len(state.items) :
             /\ C30_Agree(state, [type |-> "ToggledItem", itemIndex |-> itemIndex])
             /\ C30_Project(shoppingListReducer(state, [type |-> "ToggledNote",
                                                        itemIndex |-> itemIndex]))
                = C30_Project(state)
             /\ \A noteText \in NoteTexts :
                   C30_Project(shoppingListReducer(state, [type |-> "UpdateNoteText",
                                                           itemIndex |-> itemIndex,
                                                           text |-> noteText]))
                   = C30_Project(state)

\* a state with notes and with a quantity only the reducer gives, on which
\* SetItem of both reducers puts the same new item first
C30_Witness ==
    /\ version = "notes"
    /\ Len(state.items) = 2
    /\ state.items[1].label = "ham" /\ state.items[1].quantity = 0
    /\ state.items[2].label = "egg" /\ state.items[2].notes.isOpen
    /\ C30_Agree(state, [type |-> "SetItem", itemLabel |-> "ham"])
    /\ shoppingListReducer_qty(C30_Project(state),
                               [type |-> "SetItem", itemLabel |-> "ham"]).items[1]
       = [label |-> "ham", isSelected |-> FALSE, quantity |-> 1]

====
